---------------------------- MODULE Spec2Model ----------------------------
(***************************************************************************)
(* Mixed-precision optimizer wrapper (open_seq2seq/optimizers/mp_wrapper.py) *)
(*                                                                         *)
(* The TensorFlow graph is modelled eagerly: building an op and running it *)
(* are one step.  Numbers are exact rationals extended with +inf, -inf and *)
(* NaN; float32 arithmetic is taken to be exact on the values used, and    *)
(* float16 storage is IEEE binary16 (11 significant bits, round to nearest *)
(* even, overflow to infinity).                                            *)
(***************************************************************************)
EXTENDS Integers, Sequences, FiniteSets, TLC

(***************************************************************************)
(* Bounds of the model                                                     *)
(***************************************************************************)
\* compute_gradients calls explored (all wrappers together)
MaxCalls == 2
\* entries of the REGULARIZATION_FUNCTIONS collection explored
MaxRegs == 1
\* training steps explored when a caller feeds apply_gradients its own lists
MaxSteps == 4

(***************************************************************************)
(* Numbers                                                                 *)
(***************************************************************************)
RECURSIVE GCD(_, _)
GCD(a, b) == IF b = 0 THEN a ELSE GCD(b, a % b)

AbsInt(i) == IF i < 0 THEN -i ELSE i

\* the rational n/d in lowest terms, d > 0
Fin(n, d) ==
  LET g == GCD(AbsInt(n), AbsInt(d))
      s == IF d < 0 THEN -1 ELSE 1
  IN  [k |-> "fin", n |-> s * (n \div g), d |-> s * (d \div g)]

Inf(sign) == [k |-> "inf", n |-> sign, d |-> 1]

NaN == [k |-> "nan", n |-> 0, d |-> 1]

Zero == Fin(0, 1)

is_finite(x) == x.k = "fin"

is_inf(x) == x.k = "inf"

is_nan(x) == x.k = "nan"

Sign(x) == IF x.n > 0 THEN 1 ELSE IF x.n < 0 THEN -1 ELSE 0

\* IEEE multiplication: NaN propagates, inf * 0 is NaN
Mul(x, y) ==
  IF is_nan(x) \/ is_nan(y) THEN NaN
  ELSE IF is_inf(x) \/ is_inf(y)
       THEN IF Sign(x) * Sign(y) = 0 THEN NaN ELSE Inf(Sign(x) * Sign(y))
       ELSE Fin(x.n * y.n, x.d * y.d)

\* IEEE addition: NaN propagates, inf + (-inf) is NaN
Add(x, y) ==
  IF is_nan(x) \/ is_nan(y) THEN NaN
  ELSE IF is_inf(x) /\ is_inf(y)
       THEN IF x.n = y.n THEN x ELSE NaN
       ELSE IF is_inf(x) THEN x
       ELSE IF is_inf(y) THEN y
       ELSE LET g == GCD(x.d, y.d)
            IN  Fin(x.n * (y.d \div g) + y.n * (x.d \div g), x.d * (y.d \div g))

Neg(x) == IF is_nan(x) THEN NaN ELSE [x EXCEPT !.n = -x.n]

Sub(x, y) == Add(x, Neg(y))

Abs(x) == IF is_nan(x) THEN NaN ELSE [x EXCEPT !.n = AbsInt(x.n)]

\* x <= y on non-NaN numbers
Leq(x, y) ==
  IF is_inf(x) THEN x.n = -1 \/ (is_inf(y) /\ y.n = 1)
  ELSE IF is_inf(y) THEN y.n = 1
  ELSE LET g == GCD(x.d, y.d)
       IN  x.n * (y.d \div g) <= y.n * (x.d \div g)

\* 1. / x
Recip(x) ==
  IF is_nan(x) THEN NaN
  ELSE IF is_inf(x) THEN Zero
  ELSE IF x.n = 0 THEN Inf(1)
  ELSE Fin(x.d, x.n)

RECURSIVE Pow2(_)
Pow2(k) == IF k = 0 THEN 1 ELSE 2 * Pow2(k - 1)

(***************************************************************************)
(* float16: tf.cast(..., tf.float16) rounds a finite value to the nearest  *)
(* binary16 number (ties to even); the result overflows to infinity above  *)
(* the largest binary16 number 65504 = (2^11 - 1) * 2^5.                   *)
(***************************************************************************)
\* the binary exponent e of n/d > 0: 2^e <= n/d < 2^(e+1), not below the
\* subnormal exponent -14; searched upwards from e when n/d >= 1 ...
RECURSIVE ExpUp(_, _, _)
ExpUp(n, d, e) ==
  IF e < 16 /\ n >= d * Pow2(e + 1) THEN ExpUp(n, d, e + 1) ELSE e

\* ... and downwards from e when n/d < 1
RECURSIVE ExpDown(_, _, _)
ExpDown(n, d, e) ==
  IF e > -14 /\ n * Pow2(-e) < d THEN ExpDown(n, d, e - 1) ELSE e

Exponent(n, d) == IF n >= d THEN ExpUp(n, d, 0) ELSE ExpDown(n, d, 0)

\* round whole + rn/rd, with 0 <= rn < rd, to the nearest integer, ties to even
RoundHalfEven(whole, rn, rd) ==
  IF 2 * rn < rd THEN whole
  ELSE IF 2 * rn > rd THEN whole + 1
  ELSE IF whole % 2 = 0 THEN whole ELSE whole + 1

\* (whole + rn/d) * 2^k rounded to the nearest integer, ties to even; doubled
\* k times, so that no intermediate value exceeds twice the denominator
RECURSIVE RoundDoubled(_, _, _, _)
RoundDoubled(whole, rn, d, k) ==
  IF k = 0 THEN RoundHalfEven(whole, rn, d)
  ELSE RoundDoubled(2 * whole + ((2 * rn) \div d), (2 * rn) % d, d, k - 1)

\* n/d * 2^k rounded to the nearest integer, ties to even
RoundScaled(n, d, k) == RoundDoubled(n \div d, n % d, d, k)

\* the binary16 number nearest to the finite magnitude n/d > 0
RoundMag16(n, d) ==
  LET e == Exponent(n, d)
      \* the spacing of binary16 numbers in [2^e, 2^(e+1)) is 2^(e-10)
      m == IF e <= 10 THEN RoundScaled(n, d, 10 - e)
           ELSE RoundScaled(n, d * Pow2(e - 10), 0)
  IN  IF e >= 16 \/ (e = 15 /\ m >= Pow2(11)) THEN Inf(1)
      ELSE IF e <= 10 THEN Fin(m, Pow2(10 - e))
      ELSE Fin(m * Pow2(e - 10), 1)

CastDown16(x) ==
  IF ~is_finite(x) \/ x.n = 0 THEN x
  ELSE LET r == RoundMag16(AbsInt(x.n), x.d)
       IN  IF x.n < 0 THEN Neg(r) ELSE r


(***************************************************************************)
(* Tensors, gradients and graph variables                                  *)
(***************************************************************************)
MapSeq(Op(_), s) == [i \in 1..Len(s) |-> Op(s[i])]

\* the values of a tensor stored with the given dtype
RoundTo(dtype, vals) ==
  IF dtype = "float16" THEN MapSeq(CastDown16, vals) ELSE vals

\* a dense gradient tensor, a tf.IndexedSlices, or None
Dense(dtype, vals) ==
  [kind |-> "dense", dtype |-> dtype, values |-> vals,
   indices |-> << >>, dense_shape |-> << >>]

IndexedSlices(dtype, vals, idx, shape) ==
  [kind |-> "sparse", dtype |-> dtype, values |-> vals,
   indices |-> idx, dense_shape |-> shape]

None ==
  [kind |-> "none", dtype |-> "none", values |-> << >>,
   indices |-> << >>, dense_shape |-> << >>]

\* variable names: model variables live outside any scope (scope 0); the
\* k-th entry into tf.variable_scope('FP32-master-copy') opens scope k
Name(scope, base) == [scope |-> scope, base |-> base]

Wrappers == {"mp1", "mp2"}

VARIABLES
  graph_vars,      \* the graph's variables, in creation order
  scope_count,     \* times the 'FP32-master-copy' scope has been entered
  fp32_to_fp16,    \* per wrapper: self._fp32_to_fp16
  loss_scaler,     \* per wrapper: self._loss_scaler
  reg_collection,  \* the graph collection 'REGULARIZATION_FUNCTIONS'
  global_step,     \* the optional step counter
  held,            \* the grads_and_vars list the caller holds
  pc,              \* the apply step in progress, if any
  ret              \* the last call and what it returned

vars ==
  << graph_vars, scope_count, fp32_to_fp16, loss_scaler, reg_collection,
     global_step, held, pc, ret >>

Var(name) ==
  graph_vars[CHOOSE i \in 1..Len(graph_vars) : graph_vars[i].name = name]

EmptyMap == [x \in {} |-> x]


(***************************************************************************)
(* The model under training and the inputs of a step                       *)
(***************************************************************************)
\* a float16 weight of two elements and a float32 weight of one element
w16 == Name(0, "w")

b32 == Name(0, "b")

ModelVars ==
  << [name |-> w16, dtype |-> "float16", trainable |-> TRUE,
      value |-> << Fin(2, 1), Fin(1, 1) >>, master_copy |-> FALSE],
     [name |-> b32, dtype |-> "float32", trainable |-> TRUE,
      value |-> << Fin(1, 1) >>, master_copy |-> FALSE] >>

\* a true gradient: the gradient of the unscaled loss, before it is stored
Batch(gw, gb) == (w16 :> gw) @@ (b32 :> gb)

FiniteW == Dense("real", << Fin(1, 2), Fin(-1, 1) >>)

SparseW == IndexedSlices("real", << Fin(1, 2) >>, << 2 >>, << 2 >>)

\* finite, but beyond float16 once multiplied by a loss scale of 4 or more
LargeW == Dense("real", << Fin(16384, 1), Zero >>)

NanW == Dense("real", << NaN, Fin(1, 1) >>)

FiniteB == Dense("real", << Fin(1, 1) >>)

SparseB == IndexedSlices("real", << Fin(-1, 2) >>, << 1 >>, << 1 >>)

InfB == Dense("real", << Inf(-1) >>)

\* the gradient batches a step may see: for each variable the loss depends
\* on a dense or sparse gradient, None for a variable it does not depend on
Batches ==
  { Batch(FiniteW, FiniteB), Batch(SparseW, SparseB), Batch(FiniteW, None),
    Batch(None, FiniteB), Batch(LargeW, InfB), Batch(NanW, SparseB) }

\* tf.contrib.layers.l2_regularizer(scale): penalty scale * sum(w^2) / 2; the
\* scale is a large one, so that the penalty's gradient shows in few digits
Regularizers == { [kind |-> "l2", scale |-> Fin(1, 2)] }

RECURSIVE SumSeq(_)
SumSeq(s) == IF s = << >> THEN Zero ELSE Add(Head(s), SumSeq(Tail(s)))

\* regularizer(weights): the penalty
Penalty(reg, vals) ==
  Mul(Mul(reg.scale, Fin(1, 2)), SumSeq([i \in 1..Len(vals) |-> Mul(vals[i], vals[i])]))

\* tf.gradients(apply_regularization(reg, [v]), v)[0]: the penalty's gradient
PenaltyGrad(reg, vals) == [i \in 1..Len(vals) |-> Mul(reg.scale, vals[i])]

(***************************************************************************)
(* The base optimizer: plain gradient descent                              *)
(***************************************************************************)
learning_rate == Fin(1, 10)

\* tf.trainable_variables(): the names of the trainable variables, in order
RECURSIVE TrainableVariables(_)
TrainableVariables(gv) ==
  IF gv = << >> THEN << >>
  ELSE (IF Head(gv).trainable THEN << Head(gv).name >> ELSE << >>)
       \o TrainableVariables(Tail(gv))

\* the gradient of (factor * loss) with respect to a variable of the given
\* dtype: factor times the true gradient, stored in the variable's dtype
RawGrad(g, dtype, factor) ==
  IF g.kind = "none" THEN None
  ELSE [g EXCEPT !.dtype = dtype,
                 !.values = RoundTo(dtype, [i \in 1..Len(g.values) |->
                                              Mul(g.values[i], factor)])]

\* self._optimizer.compute_gradients(loss, var_list=None, ...)
BaseComputeGradients(gv, batch, factor) ==
  LET tv == TrainableVariables(gv)
  IN  [i \in 1..Len(tv) |->
        [grad |-> IF tv[i] \in DOMAIN batch
                  THEN RawGrad(batch[tv[i]],
                               (CHOOSE v \in {gv[j] : j \in 1..Len(gv)} :
                                  v.name = tv[i]).dtype, factor)
                  ELSE None,
         var |-> tv[i]]]


(***************************************************************************)
(* MixedPrecisionOptimizerWrapper.compute_gradients                        *)
(***************************************************************************)
One == Fin(1, 1)

\* what multiplies the loss: self._loss_scaler.loss_scale, if there is one
LossFactor(scaler) == IF scaler.active THEN scaler.scale ELSE One

\* reg_funcs = dict(map(lambda x: (x[0].name, x[1]), reg_var_funcs)): for a
\* name recorded more than once the last regularizer recorded wins
RegFuncs(coll) ==
  [n \in {coll[i].var : i \in 1..Len(coll)} |->
     coll[CHOOSE i \in 1..Len(coll) :
            /\ coll[i].var = n
            /\ \A j \in (i + 1)..Len(coll) : coll[j].var # n].regularizer]

\* ops.convert_to_tensor of a tf.IndexedSlices: the dense tensor holding, at
\* each index, the sum of the slices' values for it
Densify(g) ==
  [i \in 1..g.dense_shape[1] |->
     SumSeq([j \in 1..Len(g.values) |->
               IF g.indices[j] = i THEN g.values[j] ELSE Zero])]

\* tf.cast(grad, tf.float32) of a gradient that is not None: a sparse
\* gradient is converted to a dense tensor first
CastGrad32(g) ==
  Dense("float32", RoundTo("float32", IF g.kind = "sparse" THEN Densify(g)
                                      ELSE g.values))

AddDense(g, vals) ==
  [g EXCEPT !.values = [i \in 1..Len(g.values) |-> Add(g.values[i], vals[i])]]


\* a master copy left trainable (tf.Variable's default)
MasterCopy_Trainable(var, scope) ==
  [name |-> Name(scope, var.name.base), dtype |-> "float32",
   trainable |-> TRUE, value |-> RoundTo("float32", var.value),
   master_copy |-> TRUE]

\* the fp32 master copy of a float16 variable: tf.Variable(initial_value=
\* tf.cast(var.initialized_value(), tf.float32), trainable=False, ...)
MasterCopy(var, scope) ==
  [name |-> Name(scope, var.name.base), dtype |-> "float32",
   trainable |-> FALSE, value |-> RoundTo("float32", var.value),
   master_copy |-> TRUE]

\* fp32_grad of a float16 variable: the cast gradient plus, for a variable
\* with a recorded regularizer, the penalty's gradient at the master copy
PromotedGrad(grad, var, fp32_var, reg_funcs) ==
  IF var.name \in DOMAIN reg_funcs
  THEN AddDense(CastGrad32(grad), PenaltyGrad(reg_funcs[var.name], fp32_var.value))
  ELSE CastGrad32(grad)


\* the loop's iteration without the dtype test: every variable gets a master copy
PromoteOne_PromoteAll(st, pair, scope, reg_funcs) ==
  LET var == CHOOSE v \in {st.gv[j] : j \in 1..Len(st.gv)} : v.name = pair.var
      fp32_var == MasterCopy(var, scope)
  IN  [gv  |-> Append(st.gv, fp32_var),
       map |-> (fp32_var.name :> var.name) @@ st.map,
       out |-> IF pair.grad.kind = "none" THEN st.out
               ELSE Append(st.out,
                           [grad |-> PromotedGrad(pair.grad, var, fp32_var, reg_funcs),
                            var |-> fp32_var.name]),
       err |-> pair.grad.kind = "none"]

\* the loop's iteration with `if reg_funcs:` for `if var.name in reg_funcs:`:
\* a regularizer recorded for any variable is applied to this one
PromoteOne_AnyRegularizer(st, pair, scope, reg_funcs) ==
  LET var == CHOOSE v \in {st.gv[j] : j \in 1..Len(st.gv)} : v.name = pair.var
      fp32_var == MasterCopy(var, scope)
      reg == reg_funcs[CHOOSE n \in DOMAIN reg_funcs : TRUE]
  IN  IF var.dtype = "float16"
      THEN [gv  |-> Append(st.gv, fp32_var),
            map |-> (fp32_var.name :> var.name) @@ st.map,
            out |-> IF pair.grad.kind = "none" THEN st.out
                    ELSE Append(st.out,
                                [grad |-> IF DOMAIN reg_funcs # {}
                                          THEN AddDense(CastGrad32(pair.grad),
                                                        PenaltyGrad(reg, fp32_var.value))
                                          ELSE CastGrad32(pair.grad),
                                 var |-> fp32_var.name]),
            err |-> pair.grad.kind = "none"]
      ELSE [st EXCEPT !.out = Append(st.out, pair)]

\* one iteration of the loop over grads_and_vars_fp16; tf.cast(None, ...)
\* raises, after the master copy was created and entered in the map
PromoteOne(st, pair, scope, reg_funcs) ==
  LET var == CHOOSE v \in {st.gv[j] : j \in 1..Len(st.gv)} : v.name = pair.var
      fp32_var == MasterCopy(var, scope)
  IN  IF var.dtype = "float16"
      THEN [gv  |-> Append(st.gv, fp32_var),
            map |-> (fp32_var.name :> var.name) @@ st.map,
            out |-> IF pair.grad.kind = "none" THEN st.out
                    ELSE Append(st.out,
                                [grad |-> PromotedGrad(pair.grad, var, fp32_var, reg_funcs),
                                 var |-> fp32_var.name]),
            err |-> pair.grad.kind = "none"]
      ELSE [st EXCEPT !.out = Append(st.out, pair)]

\* the loop over grads_and_vars_fp16 from pair i on; it stops where it raises
RECURSIVE Promote(_, _, _, _, _)
Promote(st, pairs, i, scope, reg_funcs) ==
  IF i > Len(pairs) \/ st.err THEN st
  ELSE Promote(PromoteOne(st, pairs[i], scope, reg_funcs), pairs, i + 1,
               scope, reg_funcs)


\* _scale_grads without the tf.IndexedSlices branch: only dense gradients scaled
_scale_grads_DenseOnly(grads_and_vars, scale) ==
  [i \in 1..Len(grads_and_vars) |->
     LET grad == grads_and_vars[i].grad
     IN  [grad |-> IF grad.kind # "dense" THEN grad
                   ELSE [grad EXCEPT !.values =
                           [j \in 1..Len(grad.values) |-> Mul(grad.values[j], scale)]],
          var |-> grads_and_vars[i].var]]

\* _scale_grads(grads_and_vars, scale)
_scale_grads(grads_and_vars, scale) ==
  [i \in 1..Len(grads_and_vars) |->
     LET grad == grads_and_vars[i].grad
     IN  [grad |-> IF grad.kind = "none" THEN grad
                   ELSE [grad EXCEPT !.values =
                           [j \in 1..Len(grad.values) |-> Mul(grad.values[j], scale)]],
          var |-> grads_and_vars[i].var]]


\* the returned list with every gradient multiplied by the scale once more
Unscaled_ByScale(scaler, grads_and_vars_fp32) ==
  IF scaler.active
  THEN _scale_grads(grads_and_vars_fp32, scaler.scale)
  ELSE grads_and_vars_fp32

\* the list compute_gradients returns: unscaled if there is a loss scaler
Unscaled(scaler, grads_and_vars_fp32) ==
  IF scaler.active
  THEN _scale_grads(grads_and_vars_fp32, Recip(scaler.scale))
  ELSE grads_and_vars_fp32

NoValue == [some |-> FALSE, val |-> Zero]

\* the record of a call: the operation, the wrapper it was called on, how it
\* ended, the value a wrapped regularizer returned and how many times it called
\* the regularizer it wraps, and the arguments weights and batch
Call(op, self, outcome) ==
  [op |-> op, wrapper |-> self, outcome |-> outcome, value |-> NoValue,
   calls |-> 0, weights |-> w16, batch |-> EmptyMap]

Idle == [at |-> "idle", wrapper |-> "mp1", should_skip |-> FALSE, use_step |-> FALSE]

compute_gradients(self, batch) ==
  /\ pc.at = "idle"
  /\ scope_count < MaxCalls
  /\ LET scaler == loss_scaler[self]
         grads_and_vars_fp16 ==
           BaseComputeGradients(graph_vars, batch, LossFactor(scaler))
         st == Promote([gv |-> graph_vars, map |-> fp32_to_fp16[self],
                        out |-> << >>, err |-> FALSE],
                       grads_and_vars_fp16, 1, scope_count + 1,
                       RegFuncs(reg_collection))
     IN  /\ scope_count' = scope_count + 1
         /\ graph_vars' = st.gv
         /\ fp32_to_fp16' = [fp32_to_fp16 EXCEPT ![self] = st.map]
         /\ held' = IF st.err THEN held ELSE Unscaled(scaler, st.out)
         /\ ret' = [Call("compute_gradients", self,
                         IF st.err THEN "raised" ELSE "returned")
                      EXCEPT !.batch = batch]
  /\ UNCHANGED << loss_scaler, reg_collection, global_step, pc >>


(***************************************************************************)
(* AutomaticLossScaler (automatic_loss_scaler.py): back off on overflow,   *)
(* grow after a run of healthy steps                                       *)
(***************************************************************************)
\* healthy steps after which the scale grows
GrowthInterval == 2

\* the factor the scale grows and backs off by
StepFactor == Fin(2, 1)

\* the scale is never reduced below this
MinScale == Fin(1, 1)

InitialScale == Fin(8, 1)

\* the values of all gradients present; a sparse gradient gives its values
RECURSIVE GradValues(_)
GradValues(grads_and_vars) ==
  IF grads_and_vars = << >> THEN << >>
  ELSE Head(grads_and_vars).grad.values \o GradValues(Tail(grads_and_vars))

RECURSIVE MaxAbs(_)
MaxAbs(vals) ==
  IF vals = << >> THEN Zero
  ELSE LET m == MaxAbs(Tail(vals))
           a == Abs(Head(vals))
       IN  IF is_nan(a) THEN m ELSE IF Leq(a, m) THEN m ELSE a

\* AutomaticLossScaler.check_grads(grads_and_vars): whether a gradient holds
\* a non-finite value, and the largest magnitude; what a maximum over values
\* with a NaN among them is depends on the kernel: NaN, or the maximum of
\* the others
check_grads(grads_and_vars) ==
  LET vals == GradValues(grads_and_vars)
      has_nan == \E i \in 1..Len(vals) : ~is_finite(vals[i])
  IN  { [has_nan |-> has_nan, amax |-> a] :
          a \in {MaxAbs(vals)} \cup
                (IF \E i \in 1..Len(vals) : is_nan(vals[i]) THEN {NaN} ELSE {}) }

\* update_op that backs off without the lower limit
update_op_NoClamp(scaler, has_nan, amax) ==
  IF has_nan \/ is_inf(amax)
  THEN [scaler EXCEPT !.scale = Mul(scaler.scale, Recip(StepFactor)),
                      !.good_steps = 0,
                      !.iteration = scaler.iteration + 1]
  ELSE IF scaler.good_steps + 1 >= GrowthInterval
       THEN [scaler EXCEPT !.scale = Mul(scaler.scale, StepFactor),
                           !.good_steps = 0,
                           !.iteration = scaler.iteration + 1]
       ELSE [scaler EXCEPT !.good_steps = scaler.good_steps + 1,
                           !.iteration = scaler.iteration + 1]

\* self._loss_scaler.update_op(has_nan, amax)
update_op(scaler, has_nan, amax) ==
  IF has_nan \/ is_inf(amax)
  THEN [scaler EXCEPT
          !.scale = IF Leq(MinScale, Mul(scaler.scale, Recip(StepFactor)))
                    THEN Mul(scaler.scale, Recip(StepFactor)) ELSE MinScale,
          !.good_steps = 0,
          !.iteration = scaler.iteration + 1]
  ELSE IF scaler.good_steps + 1 >= GrowthInterval
       THEN [scaler EXCEPT !.scale = Mul(scaler.scale, StepFactor),
                           !.good_steps = 0,
                           !.iteration = scaler.iteration + 1]
       ELSE [scaler EXCEPT !.good_steps = scaler.good_steps + 1,
                           !.iteration = scaler.iteration + 1]

(***************************************************************************)
(* MixedPrecisionOptimizerWrapper.apply_gradients                          *)
(***************************************************************************)
IndexOf(gv, name) == CHOOSE i \in 1..Len(gv) : gv[i].name = name

\* the value of a variable after gradient descent with one gradient: a dense
\* gradient updates every element, a sparse one the elements it indexes
Descend(var, grad) ==
  LET g == IF grad.kind = "sparse" THEN Densify(grad) ELSE grad.values
  IN  RoundTo(var.dtype,
              [i \in 1..Len(var.value) |->
                 IF grad.kind = "sparse" /\ \A j \in 1..Len(grad.indices) : grad.indices[j] # i
                 THEN var.value[i]
                 ELSE Sub(var.value[i], Mul(learning_rate, g[i]))])

\* self._optimizer.apply_gradients(grads_and_vars, global_step, name) on the
\* variables: pairs without a gradient are left out
RECURSIVE BaseApplyGradients(_, _)
BaseApplyGradients(gv, grads_and_vars) ==
  IF grads_and_vars = << >> THEN gv
  ELSE LET p == Head(grads_and_vars)
           i == IndexOf(gv, p.var)
       IN  BaseApplyGradients(
             IF p.grad.kind = "none" THEN gv
             ELSE [gv EXCEPT ![i].value = Descend(gv[i], p.grad)],
             Tail(grads_and_vars))

\* tf.assign(dst_var, tf.cast(var, tf.float16)) for every pair whose variable
\* is in self._fp32_to_fp16; gv holds the values the casts read
RECURSIVE CopyBack(_, _, _)
CopyBack(gv, grads_and_vars, map) ==
  IF grads_and_vars = << >> THEN gv
  ELSE LET var == Head(grads_and_vars).var
       IN  CopyBack(
             IF var \in DOMAIN map
             THEN [gv EXCEPT ![IndexOf(gv, map[var])].value =
                               RoundTo("float16", gv[IndexOf(gv, var)].value)]
             ELSE gv,
             Tail(grads_and_vars), map)


\* apply_ops_wrapper with the casts reading the master copies before update_op
apply_ops_wrapper_CopyFirst(gv, grads_and_vars, map) ==
  BaseApplyGradients(CopyBack(gv, grads_and_vars, map), grads_and_vars)

\* apply_ops_wrapper that returns update_op alone: no cast into the float16
\* variables
apply_ops_wrapper_NoCopy(gv, grads_and_vars, map) ==
  BaseApplyGradients(gv, grads_and_vars)

\* apply_ops_wrapper(): the copies run after update_op (control dependency)
apply_ops_wrapper(gv, grads_and_vars, map) ==
  CopyBack(BaseApplyGradients(gv, grads_and_vars), grads_and_vars, map)


\* should_skip_update that overlooks the has-NaN flag
should_skip_update_InfOnly(has_nan, amax) == is_inf(amax)

\* should_skip_update = tf.logical_or(tf.is_inf(grad_amax), grad_has_nans)
should_skip_update(has_nan, amax) == is_inf(amax) \/ has_nan


\* loss_scale_update_op run only in the branch that applies the update
loss_scale_update_op_ApplyOnly(scaler, h) ==
  IF should_skip_update(h.has_nan, h.amax) THEN scaler
  ELSE update_op(scaler, h.has_nan, h.amax)

\* loss_scale_update_op run a second time inside the step
loss_scale_update_op_Twice(scaler, h) ==
  update_op(update_op(scaler, h.has_nan, h.amax), h.has_nan, h.amax)

\* loss_scale_update_op: built from the health check alone, and run whether
\* or not the update is skipped
loss_scale_update_op(scaler, h) == update_op(scaler, h.has_nan, h.amax)

\* apply_gradients(grads_and_vars, global_step): without a loss scaler the
\* whole step; with one, the health check and loss_scale_update_op, which
\* the conditional waits for (control dependency)
apply_gradients(self, use_step) ==
  /\ pc.at = "idle"
  /\ held # << >>
  /\ IF loss_scaler[self].active
     THEN \E h \in check_grads(held) :
            /\ loss_scaler' = [loss_scaler EXCEPT ![self] =
                                 loss_scale_update_op(loss_scaler[self], h)]
            /\ pc' = [at |-> "cond", wrapper |-> self,
                      should_skip |-> should_skip_update(h.has_nan, h.amax),
                      use_step |-> use_step]
            /\ ret' = Call("apply_gradients", self, "scale_updated")
            /\ UNCHANGED << graph_vars, global_step, held >>
     ELSE /\ graph_vars' = apply_ops_wrapper(graph_vars, held, fp32_to_fp16[self])
          /\ global_step' = IF use_step THEN global_step + 1 ELSE global_step
          /\ held' = << >>
          /\ ret' = Call("apply_gradients", self, "applied")
          /\ UNCHANGED << loss_scaler, pc >>
  /\ UNCHANGED << scope_count, fp32_to_fp16, reg_collection >>

\* the conditional with a skip branch that still advances the step counter
cond_StepCounted ==
  /\ pc.at = "cond"
  /\ IF pc.should_skip
     THEN /\ graph_vars' = graph_vars
          /\ global_step' = IF pc.use_step THEN global_step + 1 ELSE global_step
     ELSE /\ graph_vars' = apply_ops_wrapper(graph_vars, held, fp32_to_fp16[pc.wrapper])
          /\ global_step' = IF pc.use_step THEN global_step + 1 ELSE global_step
  /\ held' = << >>
  /\ pc' = Idle
  /\ ret' = [ret EXCEPT !.outcome = IF pc.should_skip THEN "skipped" ELSE "applied"]
  /\ UNCHANGED << scope_count, fp32_to_fp16, loss_scaler, reg_collection >>

\* tf.cond(should_skip_update, tf.no_op, apply_ops_wrapper)
cond ==
  /\ pc.at = "cond"
  /\ IF pc.should_skip
     THEN UNCHANGED << graph_vars, global_step >>
     ELSE /\ graph_vars' = apply_ops_wrapper(graph_vars, held, fp32_to_fp16[pc.wrapper])
          /\ global_step' = IF pc.use_step THEN global_step + 1 ELSE global_step
  /\ held' = << >>
  /\ pc' = Idle
  /\ ret' = [ret EXCEPT !.outcome = IF pc.should_skip THEN "skipped" ELSE "applied"]
  /\ UNCHANGED << scope_count, fp32_to_fp16, loss_scaler, reg_collection >>

(***************************************************************************)
(* mp_regularizer_wrapper                                                  *)
(***************************************************************************)

\* func_wrapper without the float16 test: the regularizer is always applied
func_wrapper_AlwaysApply(weights, regularizer) ==
  /\ pc.at = "idle"
  /\ scope_count = 0
  /\ reg_collection' = reg_collection
  /\ ret' = [Call("func_wrapper", "mp1", "returned")
               EXCEPT !.weights = weights,
                      !.calls = 1,
                      !.value = [some |-> TRUE,
                                 val |-> Penalty(regularizer, Var(weights).value)]]
  /\ UNCHANGED << graph_vars, scope_count, fp32_to_fp16, loss_scaler,
                  global_step, held, pc >>

\* func_wrapper(weights), as the model's construction calls it on a weight;
\* the model and its loss are built before the optimizer is asked for gradients
func_wrapper(weights, regularizer) ==
  /\ pc.at = "idle"
  /\ scope_count = 0
  /\ IF Var(weights).dtype = "float16"
     THEN /\ Len(reg_collection) < MaxRegs
          /\ reg_collection' =
               Append(reg_collection, [var |-> weights, regularizer |-> regularizer])
          /\ ret' = [Call("func_wrapper", "mp1", "returned")
                       EXCEPT !.weights = weights]
     ELSE /\ reg_collection' = reg_collection
          /\ ret' = [Call("func_wrapper", "mp1", "returned")
                       EXCEPT !.weights = weights,
                              !.calls = 1,
                              !.value = [some |-> TRUE,
                                         val |-> Penalty(regularizer, Var(weights).value)]]
  /\ UNCHANGED << graph_vars, scope_count, fp32_to_fp16, loss_scaler,
                  global_step, held, pc >>

(***************************************************************************)
(* The specification                                                       *)
(***************************************************************************)
\* mp1 is built with an AutomaticLossScaler, mp2 without one
Init ==
  /\ graph_vars = ModelVars
  /\ scope_count = 0
  /\ fp32_to_fp16 = [self \in Wrappers |-> EmptyMap]
  /\ loss_scaler = [self \in Wrappers |->
                      [active |-> self = "mp1", scale |-> InitialScale,
                       good_steps |-> 0, iteration |-> 0]]
  /\ reg_collection = << >>
  /\ global_step = 0
  /\ held = << >>
  /\ pc = Idle
  /\ ret = Call("__init__", "mp1", "returned")

Next ==
  \/ \E self \in Wrappers, batch \in Batches : compute_gradients(self, batch)
  \/ \E self \in Wrappers, use_step \in BOOLEAN : apply_gradients(self, use_step)
  \/ cond
  \/ \E weights \in {w16, b32}, regularizer \in Regularizers :
       func_wrapper(weights, regularizer)

Spec == Init /\ [][Next]_vars


(***************************************************************************)
(* The loss scaler fed by apply_gradients: a caller that hands             *)
(* apply_gradients lists of its own making, one training step after the    *)
(* other, and passes the step counter                                      *)
(***************************************************************************)
\* the lists handed over: two healthy ones, one holding an infinity, one a NaN
SyntheticLists ==
  { << [grad |-> Dense("float32", << Fin(1, 1) >>), var |-> b32] >>,
    << [grad |-> Dense("float16", << Fin(1, 2), Fin(-1, 1) >>), var |-> w16],
       [grad |-> IndexedSlices("float32", << Fin(-1, 2) >>, << 1 >>, << 1 >>),
        var |-> b32] >>,
    << [grad |-> Dense("float32", << Inf(-1) >>), var |-> b32] >>,
    << [grad |-> Dense("float16", << NaN, Fin(1, 1) >>), var |-> w16],
       [grad |-> Dense("float32", << Fin(1, 1) >>), var |-> b32] >> }

\* the caller makes the grads_and_vars argument of its next apply_gradients call
hold(grads_and_vars) ==
  /\ pc.at = "idle"
  /\ held = << >>
  /\ loss_scaler["mp1"].iteration < MaxSteps
  /\ held' = grads_and_vars
  /\ UNCHANGED << graph_vars, scope_count, fp32_to_fp16, loss_scaler,
                  reg_collection, global_step, pc, ret >>

NextSteps ==
  \/ \E grads_and_vars \in SyntheticLists : hold(grads_and_vars)
  \/ apply_gradients("mp1", TRUE)
  \/ cond

SpecSteps == Init /\ [][NextSteps]_vars

(***************************************************************************)
(* One float16 parameter trained with a loss scaler: the model of a step   *)
(* on a single weight, for a choice of its value, the loss scale the       *)
(* scaler was built with, and the gradients of the loss                    *)
(***************************************************************************)
\* values of the weight, all float16 numbers
ScenarioValues == { Fin(2, 1), Fin(1, 1), Fin(-1, 2) }

\* loss scales the scaler may be built with
ScenarioScales == { Fin(8, 1), Fin(1, 1), Fin(1024, 1) }

\* true gradients of the loss with respect to the weight
ScenarioGrads ==
  { Dense("real", << Fin(1, 2000) >>), Dense("real", << Fin(1, 1) >>),
    Dense("real", << Fin(-3, 4) >>), Dense("real", << Inf(1) >>) }

InitScenario ==
  /\ \E x \in ScenarioValues :
       graph_vars = << [name |-> w16, dtype |-> "float16", trainable |-> TRUE,
                        value |-> << x >>, master_copy |-> FALSE] >>
  /\ scope_count = 0
  /\ fp32_to_fp16 = [self \in Wrappers |-> EmptyMap]
  /\ \E s \in ScenarioScales :
       loss_scaler = [self \in Wrappers |->
                        [active |-> self = "mp1", scale |-> s,
                         good_steps |-> 0, iteration |-> 0]]
  /\ reg_collection = << >>
  /\ global_step = 0
  /\ held = << >>
  /\ pc = Idle
  /\ ret = Call("__init__", "mp1", "returned")

NextScenario ==
  \/ \E g \in ScenarioGrads : compute_gradients("mp1", w16 :> g)
  \/ \E use_step \in BOOLEAN : apply_gradients("mp1", use_step)
  \/ cond

SpecScenario == InitScenario /\ [][NextScenario]_vars

(***************************************************************************)
(* Two float16 weights and a float32 one: the model of steps in which more *)
(* than one variable is promoted and copied back                           *)
(***************************************************************************)
u16 == Name(0, "u")

TwoWeightVars ==
  << ModelVars[1],
     [name |-> u16, dtype |-> "float16", trainable |-> TRUE,
      value |-> << Fin(-1, 2), Fin(4, 1) >>, master_copy |-> FALSE],
     ModelVars[2] >>

FiniteU == Dense("real", << Fin(1, 1), Fin(1, 4) >>)

SparseU == IndexedSlices("real", << Fin(2, 1) >>, << 1 >>, << 2 >>)

\* the gradient batches of a step over the three variables
TwoWeightBatches ==
  { (u16 :> FiniteU) @@ Batch(FiniteW, FiniteB),
    (u16 :> SparseU) @@ Batch(SparseW, None),
    (u16 :> FiniteU) @@ Batch(NanW, SparseB),
    (u16 :> None) @@ Batch(FiniteW, FiniteB) }

InitTwoWeights ==
  /\ graph_vars = TwoWeightVars
  /\ scope_count = 0
  /\ fp32_to_fp16 = [self \in Wrappers |-> EmptyMap]
  /\ loss_scaler = [self \in Wrappers |->
                      [active |-> self = "mp1", scale |-> InitialScale,
                       good_steps |-> 0, iteration |-> 0]]
  /\ reg_collection = << >>
  /\ global_step = 0
  /\ held = << >>
  /\ pc = Idle
  /\ ret = Call("__init__", "mp1", "returned")

\* the wrappers used without a step counter
NextTwoWeights ==
  \/ \E self \in Wrappers, batch \in TwoWeightBatches : compute_gradients(self, batch)
  \/ \E self \in Wrappers : apply_gradients(self, FALSE)
  \/ cond
  \/ \E weights \in {w16, u16}, regularizer \in Regularizers :
       func_wrapper(weights, regularizer)

SpecTwoWeights == InitTwoWeights /\ [][NextTwoWeights]_vars

(***************************************************************************)
(* Properties                                                              *)
(***************************************************************************)
\* some gradient of the list holds an infinity or a NaN
HasNonFinite(grads_and_vars) ==
  \E i \in 1..Len(grads_and_vars) :
    \E j \in 1..Len(grads_and_vars[i].grad.values) :
      ~is_finite(grads_and_vars[i].grad.values[j])

\* no float16 variable changes its value in the step
Fp16Unchanged ==
  \A i \in 1..Len(graph_vars) :
    graph_vars[i].dtype = "float16" => graph_vars'[i].value = graph_vars[i].value

\* the value a variable of the graph has after the step
ValueAfter(name) == graph_vars'[IndexOf(graph_vars, name)].value

\* the step starts an apply_gradients call on a wrapper with a loss scaler
StartsScaledApply == pc.at = "idle" /\ pc'.at = "cond"

\* the step is the conditional of an apply_gradients call with a loss scaler
RunsConditional == pc.at = "cond"

\* C1: with a loss scaler, an apply_gradients step whose gradients hold a
\* non-finite value leaves every float16 variable's value as it was, in the
\* loss-scale update and in the conditional that follows it (which takes the
\* skip branch), while the loss scaler's state is changed by the update.
C1_NonFiniteStepLeavesFp16 ==
  [][ /\ (StartsScaledApply /\ HasNonFinite(held)) =>
           /\ Fp16Unchanged
           /\ pc'.should_skip
           /\ loss_scaler'[pc'.wrapper] # loss_scaler[pc'.wrapper]
      /\ (RunsConditional /\ HasNonFinite(held)) =>
           /\ Fp16Unchanged
           /\ ret'.outcome = "skipped"
           /\ loss_scaler' = loss_scaler ]_vars

\* a step with a loss scaler was skipped, by a wrapper that has master copies,
\* and the loss scale was backed off
C1_Witness ==
  /\ ret.op = "apply_gradients" /\ ret.outcome = "skipped"
  /\ DOMAIN fp32_to_fp16[ret.wrapper] # {}
  /\ loss_scaler[ret.wrapper].iteration >= 1
  /\ loss_scaler[ret.wrapper].scale # InitialScale

\* C2: with a loss scaler and all-finite gradients the conditional applies the
\* update: every variable paired with a gradient gets the base optimizer's
\* descent step, and every float16 variable whose master copy (an entry of the
\* wrapper's map) is in the pairs then equals the float16 cast of the master
\* copy's value after that update.
C2_FiniteStepUpdatesAndCopiesBack ==
  [][ (RunsConditional /\ ~HasNonFinite(held)) =>
        /\ ret'.outcome = "applied"
        /\ \A i \in 1..Len(held) :
             /\ held[i].grad.kind # "none" =>
                  ValueAfter(held[i].var) = Descend(Var(held[i].var), held[i].grad)
             /\ held[i].var \in DOMAIN fp32_to_fp16[pc.wrapper] =>
                  ValueAfter(fp32_to_fp16[pc.wrapper][held[i].var])
                    = RoundTo("float16", ValueAfter(held[i].var)) ]_vars

\* the wrapper with a loss scaler applied an update that moved a master copy
\* off the float16 grid: the float16 variable holds its rounded value
C2_Witness ==
  /\ ret.op = "apply_gradients" /\ ret.outcome = "applied" /\ ret.wrapper = "mp1"
  /\ \E n \in DOMAIN fp32_to_fp16["mp1"] :
       /\ Var(fp32_to_fp16["mp1"][n]).value = RoundTo("float16", Var(n).value)
       /\ Var(fp32_to_fp16["mp1"][n]).value # Var(n).value
       /\ Var(fp32_to_fp16["mp1"][n]).value # ModelVars[1].value

\* C3: with a loss scaler every apply_gradients step updates the loss scaler
\* exactly once: the update runs first, from this step's health signal alone
\* and with no variable changed yet; the conditional that follows, skipping or
\* applying, leaves the loss scaler alone; no other step touches it.
C3_OneScaleUpdateBeforeBranch ==
  [][ /\ StartsScaledApply =>
           /\ loss_scaler'[pc'.wrapper].iteration
                = loss_scaler[pc'.wrapper].iteration + 1
           /\ \E h \in check_grads(held) :
                /\ loss_scaler'[pc'.wrapper]
                     = update_op(loss_scaler[pc'.wrapper], h.has_nan, h.amax)
                /\ pc'.should_skip = (is_inf(h.amax) \/ h.has_nan)
           /\ \A other \in Wrappers \ {pc'.wrapper} :
                loss_scaler'[other] = loss_scaler[other]
           /\ graph_vars' = graph_vars /\ global_step' = global_step
      /\ RunsConditional =>
           /\ loss_scaler' = loss_scaler
           /\ pc'.at = "idle"
           /\ ret'.outcome = IF pc.should_skip THEN "skipped" ELSE "applied"
      /\ (pc.at = "idle" /\ pc'.at = "idle") => loss_scaler' = loss_scaler ]_vars

\* the second step of a wrapper with a loss scaler: its loss scale update has
\* run, its conditional, which will skip, has not
C3_Witness ==
  /\ pc.at = "cond" /\ pc.should_skip
  /\ loss_scaler[pc.wrapper].iteration = 2


\* C4: on each wrapper every float16 variable has at most one master copy in
\* the map, however many compute_gradients calls met it (the copy made at the
\* first call is the one later calls use).
C4_OneShadowPerParameter ==
  \A self \in Wrappers :
    \A n1, n2 \in DOMAIN fp32_to_fp16[self] :
      fp32_to_fp16[self][n1] = fp32_to_fp16[self][n2] => n1 = n2

\* the dense form of a true gradient
TrueDense(g) == IF g.kind = "sparse" THEN Densify(g) ELSE g.values

\* the step is a compute_gradients call that returned
ReturnsGradients == ret'.op = "compute_gradients" /\ ret'.outcome = "returned"

\* C5: for a float16 variable with a recorded regularizer whose raw gradient
\* is finite, the gradient compute_gradients returns for its master copy is
\* the gradient of the unscaled loss plus the whole gradient of the penalty at
\* the master copy, with a loss scaler (whatever the scale) and without one.
C5_FullRegularizationGradient ==
  [][ ReturnsGradients =>
        LET self == ret'.wrapper
            reg_funcs == RegFuncs(reg_collection)
        IN  \A i \in 1..Len(held') :
              LET n == held'[i].var
                  v == fp32_to_fp16'[self][n]
                  raw == RawGrad(ret'.batch[v], "float16", LossFactor(loss_scaler[self]))
              IN  ( /\ n \in DOMAIN fp32_to_fp16'[self]
                    /\ n \notin DOMAIN fp32_to_fp16[self]
                    /\ v \in DOMAIN reg_funcs
                    /\ \A j \in 1..Len(raw.values) : is_finite(raw.values[j]) )
                  => held'[i].grad.values
                       = [j \in 1..Len(held'[i].grad.values) |->
                            Add(TrueDense(ret'.batch[v])[j],
                                PenaltyGrad(reg_funcs[v],
                                            graph_vars'[IndexOf(graph_vars', n)].value)[j])] ]_vars

\* C6: an apply_gradients step given a pair whose variable is a master copy
\* with no entry in the wrapper's map does not complete: it raises.
C6_MissingShadowRaises ==
  [][ ( /\ ret'.op = "apply_gradients" /\ pc'.at = "idle"
        /\ \E i \in 1..Len(held) :
             /\ Var(held[i].var).master_copy
             /\ held[i].var \notin DOMAIN fp32_to_fp16[ret'.wrapper] )
      => ret'.outcome = "raised" ]_vars

\* C7: a call of the wrapped regularizer on a float16 variable appends the
\* (variable, regularizer) pair to REGULARIZATION_FUNCTIONS and returns None
\* without calling the regularizer; on a float32 variable it returns the
\* regularizer's penalty for the variable and leaves the collection as it was.
C7_RegularizerRedirected ==
  [][ ret'.op = "func_wrapper" =>
        \E regularizer \in Regularizers :
          IF Var(ret'.weights).dtype = "float16"
          THEN /\ reg_collection' = Append(reg_collection,
                                           [var |-> ret'.weights,
                                            regularizer |-> regularizer])
               /\ ret'.value = NoValue
               /\ ret'.calls = 0
          ELSE /\ reg_collection' = reg_collection
               /\ ret'.value = [some |-> TRUE,
                                val |-> Penalty(regularizer, Var(ret'.weights).value)]
               /\ ret'.calls = 1 ]_vars

\* the wrapped regularizer was called on the float16 weight: recorded, no penalty
C7_Witness ==
  /\ ret.op = "func_wrapper" /\ ret.weights = w16
  /\ Len(reg_collection) >= 1
  /\ reg_collection[Len(reg_collection)].var = w16
  /\ ~ret.value.some

\* the full-precision list compute_gradients builds before unscaling
PromotedList(self, batch) ==
  Promote([gv |-> graph_vars, map |-> fp32_to_fp16[self], out |-> << >>,
           err |-> FALSE],
          BaseComputeGradients(graph_vars, batch, LossFactor(loss_scaler[self])),
          1, scope_count + 1, RegFuncs(reg_collection)).out

\* C8: with a loss scaler, compute_gradients returns the full-precision list
\* with every gradient multiplied by 1/scale: all values of a dense gradient,
\* the values of a sparse one with its indices and dense shape kept, None left
\* None, variables and order kept; without a loss scaler it returns the list
\* as it is.
C8_UnscaleByReciprocal ==
  [][ ReturnsGradients =>
        LET self == ret'.wrapper
            fp32 == PromotedList(self, ret'.batch)
            r == Recip(loss_scaler[self].scale)
        IN  IF loss_scaler[self].active
            THEN /\ Len(held') = Len(fp32)
                 /\ \A i \in 1..Len(fp32) :
                      /\ held'[i].var = fp32[i].var
                      /\ held'[i].grad.kind = fp32[i].grad.kind
                      /\ held'[i].grad.dtype = fp32[i].grad.dtype
                      /\ held'[i].grad.indices = fp32[i].grad.indices
                      /\ held'[i].grad.dense_shape = fp32[i].grad.dense_shape
                      /\ Len(held'[i].grad.values) = Len(fp32[i].grad.values)
                      /\ \A j \in 1..Len(fp32[i].grad.values) :
                           held'[i].grad.values[j] = Mul(fp32[i].grad.values[j], r)
            ELSE held' = fp32 ]_vars

\* the wrapper with a loss scaler returned a list holding a sparse and a dense
\* gradient, whose values differ from the values before unscaling
C8_Witness ==
  /\ ret.op = "compute_gradients" /\ ret.outcome = "returned" /\ ret.wrapper = "mp1"
  /\ \E i, j \in 1..Len(held) :
       /\ held[i].grad.kind = "sparse" /\ held[j].grad.kind = "dense"
       /\ held[i].grad.values = << Fin(-1, 2) >>

\* the value of variable v after the base optimizer's update with the pairs
Updated(gv, grads_and_vars, v) ==
  IF \E i \in 1..Len(grads_and_vars) :
       grads_and_vars[i].var = v.name /\ grads_and_vars[i].grad.kind # "none"
  THEN Descend(v, grads_and_vars[CHOOSE i \in 1..Len(grads_and_vars) :
                                   /\ grads_and_vars[i].var = v.name
                                   /\ grads_and_vars[i].grad.kind # "none"].grad)
  ELSE v.value

\* the values after update-and-copy-back: a float16 variable whose master copy
\* (an entry of the map) is in the pairs holds the cast of the master copy's
\* updated value, every other variable its own updated value
UpdateAndCopyBack(gv, grads_and_vars, map) ==
  [k \in 1..Len(gv) |->
     IF \E i \in 1..Len(grads_and_vars) :
          /\ grads_and_vars[i].var \in DOMAIN map
          /\ map[grads_and_vars[i].var] = gv[k].name
     THEN LET n == grads_and_vars[CHOOSE i \in 1..Len(grads_and_vars) :
                                    /\ grads_and_vars[i].var \in DOMAIN map
                                    /\ map[grads_and_vars[i].var] = gv[k].name].var
          IN  RoundTo("float16", Updated(gv, grads_and_vars, gv[IndexOf(gv, n)]))
     ELSE Updated(gv, grads_and_vars, gv[k])]

ValuesAfter == [k \in 1..Len(graph_vars') |-> graph_vars'[k].value]

\* C9: without a loss scaler apply_gradients is one step that always applies:
\* the base optimizer's update over the pairs, then the cast of each updated
\* master copy into its float16 variable, non-finite gradients included, and
\* no loss scaler changes; with a loss scaler, a step that is not skipped has
\* the same effect on all variables.
C9_ApplyIsUpdateAndCopyBack ==
  [][ /\ ( /\ pc.at = "idle" /\ ret'.op = "apply_gradients"
           /\ ~loss_scaler[ret'.wrapper].active )
         => /\ pc'.at = "idle"
            /\ ret'.outcome = "applied"
            /\ loss_scaler' = loss_scaler
            /\ ValuesAfter
                 = UpdateAndCopyBack(graph_vars, held, fp32_to_fp16[ret'.wrapper])
      /\ (RunsConditional /\ ~pc.should_skip)
         => ValuesAfter
              = UpdateAndCopyBack(graph_vars, held, fp32_to_fp16[pc.wrapper]) ]_vars

\* the wrapper without a loss scaler applied gradients holding a NaN: the
\* float16 weight now holds it, and no loss scaler was touched
C9_Witness ==
  /\ ret.op = "apply_gradients" /\ ret.outcome = "applied" /\ ret.wrapper = "mp2"
  /\ is_nan(Var(w16).value[1])
  /\ \A self \in Wrappers : loss_scaler[self].iteration = 0

IsMasterCopy(gv, name) == gv[IndexOf(gv, name)].master_copy

\* the step applies the pairs held: an apply_gradients call without a loss
\* scaler, or the conditional of one with a loss scaler when it does not skip
AppliesUpdate ==
  \/ pc.at = "idle" /\ ret'.op = "apply_gradients" /\ pc'.at = "idle"
  \/ RunsConditional /\ ~pc.should_skip

\* C10: every master copy is non-trainable, so none is among the variables
\* the base optimizer differentiates by default; no list compute_gradients
\* returns names a variable twice; and a step that applies an update changes
\* a master copy only if a pair of the list names it, by one descent step.
C10_MasterCopiesUpdatedOnce ==
  [][ /\ \A k \in 1..Len(graph_vars') :
           graph_vars'[k].master_copy =>
             /\ ~graph_vars'[k].trainable
             /\ \A i \in 1..Len(TrainableVariables(graph_vars')) :
                  TrainableVariables(graph_vars')[i] # graph_vars'[k].name
      /\ ret'.op = "compute_gradients" =>
           \A i \in 1..Len(TrainableVariables(graph_vars)) :
             ~IsMasterCopy(graph_vars, TrainableVariables(graph_vars)[i])
      /\ \A i, j \in 1..Len(held') : held'[i].var = held'[j].var => i = j
      /\ AppliesUpdate =>
           \A k \in 1..Len(graph_vars) :
             graph_vars[k].master_copy =>
               \/ graph_vars'[k].value = graph_vars[k].value
               \/ \E i \in 1..Len(held) :
                    /\ held[i].var = graph_vars[k].name
                    /\ held[i].grad.kind # "none"
                    /\ graph_vars'[k].value = Descend(graph_vars[k], held[i].grad) ]_vars

\* after two compute_gradients calls an update was applied and moved a master
\* copy, which the second call did not differentiate
C10_Witness ==
  /\ ret.op = "apply_gradients" /\ ret.outcome = "applied"
  /\ scope_count = 2
  /\ \E k \in 1..Len(graph_vars) :
       graph_vars[k].master_copy /\ graph_vars[k].value # ModelVars[1].value

\* the pairs of the base optimizer a compute_gradients call starts from
BasePairs(self, batch) ==
  BaseComputeGradients(graph_vars, batch, LossFactor(loss_scaler[self]))

\* C11: a pair whose variable is float32 goes through compute_gradients with
\* its variable and its gradient (unscaled if there is a loss scaler, nothing
\* added), at its place in the list; the call creates no variable with its
\* base name and no map entry for it; and a step that applies the pairs gives
\* a float32 model variable its own descent step and casts it nowhere.
C11_Fp32PassThrough ==
  [][ /\ ReturnsGradients =>
           LET self == ret'.wrapper
               pairs == BasePairs(self, ret'.batch)
           IN  \A i \in 1..Len(pairs) :
                 Var(pairs[i].var).dtype = "float32" =>
                   /\ i <= Len(held')
                   /\ held'[i].var = pairs[i].var
                   /\ held'[i].grad
                        = Unscaled(loss_scaler[self], << pairs[i] >>)[1].grad
                   /\ \A k \in (Len(graph_vars) + 1)..Len(graph_vars') :
                        graph_vars'[k].name.base # pairs[i].var.base
                   /\ pairs[i].var \notin DOMAIN fp32_to_fp16'[self]
                   /\ \A n \in DOMAIN fp32_to_fp16'[self] :
                        fp32_to_fp16'[self][n] # pairs[i].var
      /\ AppliesUpdate =>
           \A i \in 1..Len(held) :
             LET v == Var(held[i].var)
             IN  (v.dtype = "float32" /\ ~v.master_copy) =>
                   /\ ValueAfter(v.name) = Updated(graph_vars, held, v)
                   /\ \A k \in 1..Len(graph_vars) :
                        graph_vars[k].name # v.name =>
                          \/ graph_vars'[k].value = graph_vars[k].value
                          \/ \E j \in 1..Len(held) :
                               /\ held[j].var # v.name
                               /\ \/ held[j].var = graph_vars[k].name
                                  \/ /\ held[j].var \in DOMAIN fp32_to_fp16[ret'.wrapper]
                                     /\ fp32_to_fp16[ret'.wrapper][held[j].var]
                                          = graph_vars[k].name ]_vars

\* a wrapper that has a master copy for w applied a list holding a gradient
\* for the float32 b: b moved by its own descent step, and no map names it
C11_Witness ==
  /\ ret.op = "apply_gradients" /\ ret.outcome = "applied"
  /\ DOMAIN fp32_to_fp16[ret.wrapper] # {}
  /\ Var(b32).value = << Fin(9, 10) >>
  /\ Len(graph_vars) = 3

\* the master copy the first compute_gradients call makes for the weight
Shadow1 == Name(1, "w")

\* the first compute_gradients call of the scenario: the weight holds 2, the
\* loss scale is 8, and the gradient of the loss is 0.0005 (so that of the
\* scaled loss is 0.004)
ScenarioCompute ==
  /\ ReturnsGradients
  /\ scope_count = 0
  /\ Var(w16).value = << Fin(2, 1) >>
  /\ loss_scaler["mp1"].scale = Fin(8, 1)
  /\ ret'.batch[w16] = Dense("real", << Fin(1, 2000) >>)

\* the step that applies what the scenario's call returned
ScenarioApply ==
  /\ AppliesUpdate
  /\ Len(graph_vars) = 2
  /\ Var(w16).value = << Fin(2, 1) >>
  /\ Var(Shadow1).value = << Fin(2, 1) >>
  /\ Len(held) = 1 /\ held[1].var = Shadow1
  /\ held[1].grad.values = << Mul(CastDown16(Fin(4, 1000)), Fin(1, 8)) >>

RECURSIVE Power(_, _)
Power(x, k) == IF k = 0 THEN One ELSE Mul(x, Power(x, k - 1))

\* the scale after n healthy steps and nothing else: one growth per full
\* interval of healthy steps
ScaleAfterHealthy(n) ==
  Mul(InitialScale, Power(StepFactor, n \div GrowthInterval))

\* every step so far was applied: the step counter, passed to every call,
\* counts the applied steps, the loss scaler's iteration all of them
OnlyHealthySoFar(self) == loss_scaler[self].iteration = global_step

\* C13: when apply_gradients is fed N healthy lists in a row and then one
\* holding a non-finite value, the scale before step N+1 is the initial scale
\* grown once per GrowthInterval healthy steps, with the healthy-step counter
\* at N mod GrowthInterval; a further healthy list continues that growth, and
\* the overflowing list divides the scale by exactly StepFactor and resets
\* the counter.
C13_GrowthThenBackoff ==
  [][ (StartsScaledApply /\ OnlyHealthySoFar(pc'.wrapper)) =>
        LET self == pc'.wrapper
            N == loss_scaler[self].iteration
        IN  /\ loss_scaler[self].scale = ScaleAfterHealthy(N)
            /\ loss_scaler[self].good_steps = N % GrowthInterval
            /\ IF HasNonFinite(held)
               THEN /\ loss_scaler'[self].scale
                         = Mul(ScaleAfterHealthy(N), Recip(StepFactor))
                    /\ loss_scaler'[self].good_steps = 0
                    /\ pc'.should_skip
               ELSE /\ loss_scaler'[self].scale = ScaleAfterHealthy(N + 1)
                    /\ loss_scaler'[self].good_steps = (N + 1) % GrowthInterval
                    /\ ~pc'.should_skip ]_vars

\* three healthy steps, over which the scale doubled once, then an overflow:
\* the step was skipped, the scale is halved and the counter back at zero
C13_Witness ==
  /\ ret.op = "apply_gradients" /\ ret.outcome = "skipped"
  /\ global_step = 3
  /\ loss_scaler["mp1"].iteration = 4
  /\ loss_scaler["mp1"].scale = Fin(8, 1)
  /\ loss_scaler["mp1"].good_steps = 0

\* C14: whatever healthy and overflowing lists apply_gradients has been fed,
\* the loss scale is a finite positive number not below MinScale, and
\* MinScale is not below 1.
C14_ScaleNotBelowMinimum ==
  /\ Leq(One, MinScale)
  /\ \A self \in Wrappers :
       /\ is_finite(loss_scaler[self].scale)
       /\ loss_scaler[self].scale.n > 0
       /\ Leq(MinScale, loss_scaler[self].scale)

\* four overflowing lists in a row: the fourth backoff would have taken the
\* scale from 1 to 1/2, and the scale is at the minimum
C14_Witness ==
  /\ ret.op = "apply_gradients" /\ ret.outcome = "skipped"
  /\ loss_scaler["mp1"].iteration = 4
  /\ global_step = 0
  /\ loss_scaler["mp1"].scale = MinScale

\* C15: between steps every float16 variable that has a master copy in a
\* wrapper's map holds the float16 cast of that master copy's value.
C15_Coherence ==
  pc.at = "idle" =>
    \A self \in Wrappers :
      \A n \in DOMAIN fp32_to_fp16[self] :
        Var(fp32_to_fp16[self][n]).value = RoundTo("float16", Var(n).value)

\* the model variable a pair of a returned list stands for: the float16
\* variable of a master copy, the variable itself otherwise
ModelVarOf(map, name) == IF name \in DOMAIN map THEN map[name] ELSE name

\* the gradient of the unscaled loss with respect to a variable, as the base
\* optimizer would return it: stored in the variable's dtype
UnscaledLossGrad(batch, v) == RawGrad(batch[v.name], v.dtype, One)

\* C16: with a loss scaler, a compute_gradients call multiplies the loss and
\* divides the gradients by one and the same scale, the loss scaler's value
\* before the call, and leaves the loss scaler as it is (its update belongs
\* to the apply step that follows); so every gradient returned whose scaled
\* form is finite equals the gradient of the unscaled loss (of the loss alone,
\* or of the loss with the variable's recorded penalty counted in).
C16_UnscaledIsGradientOfLoss ==
  [][ (ReturnsGradients /\ loss_scaler[ret'.wrapper].active) =>
        LET self == ret'.wrapper
            scale == loss_scaler[self].scale
        IN  /\ loss_scaler' = loss_scaler
            /\ held' = _scale_grads(
                         Promote([gv |-> graph_vars, map |-> fp32_to_fp16[self],
                                  out |-> << >>, err |-> FALSE],
                                 BaseComputeGradients(graph_vars, ret'.batch, scale),
                                 1, scope_count + 1, RegFuncs(reg_collection)).out,
                         Recip(scale))
            /\ \A i \in 1..Len(held') :
                 LET v == Var(ModelVarOf(fp32_to_fp16'[self], held'[i].var))
                     scaled == RawGrad(ret'.batch[v.name], v.dtype, scale)
                     g == UnscaledLossGrad(ret'.batch, v)
                 IN  (\A j \in 1..Len(scaled.values) : is_finite(scaled.values[j]))
                     => /\ held'[i].grad.kind = "none" <=> g.kind = "none"
                        /\ held'[i].grad.kind # "none" =>
                             \/ TrueDense(held'[i].grad) = TrueDense(g)
                             \/ /\ v.name \in DOMAIN RegFuncs(reg_collection)
                                /\ TrueDense(held'[i].grad)
                                     = AddDense(Dense("float32", TrueDense(g)),
                                                PenaltyGrad(RegFuncs(reg_collection)[v.name],
                                                            v.value)).values ]_vars

\* C17: a skipped step (a loss scaler, gradients holding a non-finite value)
\* changes nothing but the loss scaler: in its first half, the loss-scale
\* update, and in its second, the conditional taking the no_op branch, every
\* variable of the graph (float16 and float32 model variables and master
\* copies alike), the step counter, every wrapper's map and the
\* regularization collection stay as they were; the loss scaler of the
\* wrapper changes in the first half and nothing changes it in the second.
C17_SkippedStepFrame ==
  [][ /\ (StartsScaledApply /\ pc'.should_skip) =>
           /\ graph_vars' = graph_vars
           /\ global_step' = global_step
           /\ fp32_to_fp16' = fp32_to_fp16
           /\ reg_collection' = reg_collection
           /\ scope_count' = scope_count
           /\ loss_scaler'[pc'.wrapper] # loss_scaler[pc'.wrapper]
      /\ (RunsConditional /\ pc.should_skip) =>
           /\ HasNonFinite(held)
           /\ ret'.outcome = "skipped"
           /\ graph_vars' = graph_vars
           /\ global_step' = global_step
           /\ fp32_to_fp16' = fp32_to_fp16
           /\ reg_collection' = reg_collection
           /\ scope_count' = scope_count
           /\ loss_scaler' = loss_scaler ]_vars

\* a step given the step counter was skipped after an earlier one was
\* applied: the counter still shows one step, the master copy the value the
\* applied step gave it
C17_Witness ==
  /\ ret.op = "apply_gradients" /\ ret.outcome = "skipped"
  /\ global_step = 1
  /\ loss_scaler[ret.wrapper].iteration = 2
  /\ \E k \in 1..Len(graph_vars) :
       graph_vars[k].master_copy /\ graph_vars[k].value # ModelVars[1].value

\* the orders in which n things can be processed
Orders(n) ==
  { p \in [1..n -> 1..n] : \A i, j \in 1..n : p[i] = p[j] => i = j }

InOrder(s, p) == [i \in 1..Len(s) |-> s[p[i]]]

Elements(s) == { s[i] : i \in 1..Len(s) }

\* apply_ops: the tf.assign ops apply_ops_wrapper builds, as (destination,
\* source) pairs, in the order of the list
RECURSIVE apply_ops(_, _)
apply_ops(grads_and_vars, map) ==
  IF grads_and_vars = << >> THEN << >>
  ELSE (IF Head(grads_and_vars).var \in DOMAIN map
        THEN << [dst |-> map[Head(grads_and_vars).var],
                 src |-> Head(grads_and_vars).var] >>
        ELSE << >>)
       \o apply_ops(Tail(grads_and_vars), map)

\* tf.group(apply_ops) run in the order given, each cast reading the graph
\* variables as the base optimizer's update left them
RECURSIVE RunAssigns(_, _, _)
RunAssigns(gv, updated, ops) ==
  IF ops = << >> THEN gv
  ELSE RunAssigns([gv EXCEPT ![IndexOf(gv, Head(ops).dst)].value =
                     RoundTo("float16", updated[IndexOf(gv, Head(ops).src)].value)],
                  updated, Tail(ops))

\* the pair compute_gradients makes of one pair of the base optimizer from
\* that pair's own inputs alone: its gradient, its variable, the regularizer
\* recorded for its variable if any, and the loss scale
PairAlone(self, pair) ==
  LET reg_funcs == RegFuncs(reg_collection)
      own == [n \in DOMAIN reg_funcs \cap {pair.var} |-> reg_funcs[n]]
      st == PromoteOne([gv |-> << Var(pair.var) >>, map |-> EmptyMap,
                        out |-> << >>, err |-> FALSE],
                       pair, scope_count + 1, own)
  IN  Unscaled(loss_scaler[self], st.out)[1]

\* C18: the pair compute_gradients returns for a variable is made from that
\* variable's own gradient, value and recorded regularizer and the loss
\* scale alone, so the loop run over the base optimizer's pairs in any order
\* returns the same pairs and leaves the same variables and map; and the
\* casts of an apply step have pairwise different destinations, so run in
\* any order they leave the values the step leaves.
C18_NoCrossParameterDependency ==
  [][ /\ ReturnsGradients =>
           LET self == ret'.wrapper
           IN  \A pairs \in {BasePairs(self, ret'.batch)} :
                 /\ Len(held') = Len(pairs)
                 /\ \A i \in 1..Len(pairs) : held'[i] = PairAlone(self, pairs[i])
                 /\ \A p \in Orders(Len(pairs)) :
                      \A st \in {Promote([gv |-> graph_vars,
                                          map |-> fp32_to_fp16[self],
                                          out |-> << >>, err |-> FALSE],
                                         InOrder(pairs, p), 1, scope_count + 1,
                                         RegFuncs(reg_collection))} :
                        /\ Elements(Unscaled(loss_scaler[self], st.out))
                             = Elements(held')
                        /\ Elements(st.gv) = Elements(graph_vars')
                        /\ st.map = fp32_to_fp16'[self]
      /\ AppliesUpdate =>
           LET ops == apply_ops(held, fp32_to_fp16[ret'.wrapper])
               updated == BaseApplyGradients(graph_vars, held)
           IN  /\ \A i, j \in 1..Len(ops) : ops[i].dst = ops[j].dst => i = j
               /\ \A p \in Orders(Len(ops)) :
                    graph_vars' = RunAssigns(updated, updated, InOrder(ops, p)) ]_vars

\* a step was applied that updated the master copies of both float16 weights
\* and cast each into its own weight, one of them with a recorded regularizer
C18_Witness ==
  /\ ret.op = "apply_gradients" /\ ret.outcome = "applied"
  /\ Len(reg_collection) = 1
  /\ \E n1, n2 \in DOMAIN fp32_to_fp16[ret.wrapper] :
       /\ fp32_to_fp16[ret.wrapper][n1] = w16
       /\ fp32_to_fp16[ret.wrapper][n2] = u16
       /\ Var(n1).value # TwoWeightVars[1].value
       /\ Var(n2).value # TwoWeightVars[2].value
       /\ Var(w16).value = RoundTo("float16", Var(n1).value)
       /\ Var(u16).value = RoundTo("float16", Var(n2).value)

=============================================================================
